---------------------------- MODULE Spec2Model ----------------------------
(***************************************************************************)
(* State-machine model of src/app.py: the Flask backend that signs users   *)
(* up, logs them in, and ingests, lists, fetches and deletes PDF papers.   *)
(*                                                                         *)
(* The store (tables User and Paper), the upload directory and the clock   *)
(* are shared state.  Every request is served by a worker; a handler that  *)
(* touches shared state more than once is cut into steps at those places,  *)
(* so that requests of different workers interleave as they do in a        *)
(* threaded server.  The last answered request is kept in `last`.          *)
(***************************************************************************)
EXTENDS Integers, Sequences, FiniteSets, TLC

VARIABLES users, papers, files, now, pc, loc, session, last

vars == <<users, papers, files, now, pc, loc, session, last>>

(***************************************************************************)
(* Bounds of the model.                                                    *)
(***************************************************************************)
\* The clock (seconds) runs from 0 to MaxTime.
MaxTime == 1
\* The largest paper id handed out where the quota is exercised: one more
\* than the quota of 3, so that a fourth paper can appear.
MaxPaperId == 4
\* The largest paper id handed out where two users own papers.
MaxOwned == 2
\* The largest paper id handed out where every provider outcome is tried.
MaxAnalysed == 1

Workers == {"w1", "w2"}
Emails == {"a@x", "b@x"}
Passwords == {"pw1", "pw2"}
Salts == {"s1", "s2"}
\* The value of a JSON field that the request does not carry.
Missing == "<missing>"

(***************************************************************************)
(* Strings.  A short string (a file name, a path) is a tuple of            *)
(* characters.  A text (the text of a document, generated prose) is kept   *)
(* run-length encoded: a tuple of <<character, count>> runs, no run empty, *)
(* no two neighbouring runs of the same character.                         *)
(***************************************************************************)
Max(S) == CHOOSE m \in S : \A x \in S : x <= m

Run(c, n) == IF n = 0 THEN <<>> ELSE << <<c, n>> >>

TLen(t) ==
  LET RECURSIVE sum(_)
      sum(i) == IF i = 0 THEN 0 ELSE t[i][2] + sum(i - 1)
  IN sum(Len(t))

\* t + u
TCat(t, u) ==
  IF t = <<>> THEN u
  ELSE IF u = <<>> THEN t
  ELSE IF t[Len(t)][1] = u[1][1]
       THEN SubSeq(t, 1, Len(t) - 1)
            \o << <<u[1][1], t[Len(t)][2] + u[1][2]>> >>
            \o Tail(u)
       ELSE t \o u

\* t[:n]
TTake(t, n) ==
  LET RECURSIVE take(_, _)
      take(i, k) ==
        IF i > Len(t) \/ k = 0 THEN <<>>
        ELSE IF t[i][2] >= k THEN << <<t[i][1], k>> >>
        ELSE << t[i] >> \o take(i + 1, k - t[i][2])
  IN take(1, n)

\* The text of a short string.
Str(s) ==
  LET RECURSIVE conv(_)
      conv(i) == IF i = 0 THEN <<>> ELSE TCat(conv(i - 1), Run(s[i], 1))
  IN conv(Len(s))

\* str(n) of a natural number, as a tuple of digit characters.
Digit(d) == <<"0", "1", "2", "3", "4", "5", "6", "7", "8", "9">>[d + 1]

RECURSIVE IntToStr(_)
IntToStr(n) == IF n < 10 THEN <<Digit(n)>> ELSE IntToStr(n \div 10) \o <<Digit(n % 10)>>

\* int(s) of a tuple of digit characters.
DigitValue(c) == CHOOSE d \in 0..9 : Digit(d) = c

RECURSIVE StrToInt(_)
StrToInt(s) ==
  IF Len(s) = 1 THEN DigitValue(s[1])
  ELSE 10 * StrToInt(SubSeq(s, 1, Len(s) - 1)) + DigitValue(s[Len(s)])

\* s.lower(), on the characters the model uses.
LowerChar(c) ==
  CASE c = "P" -> "p" [] c = "D" -> "d" [] c = "F" -> "f"
    [] c = "A" -> "a" [] c = "B" -> "b" [] OTHER -> c

Lower(s) == [i \in 1..Len(s) |-> LowerChar(s[i])]

\* s.endswith(suffix)
EndsWith(s, suffix) ==
  /\ Len(s) >= Len(suffix)
  /\ SubSeq(s, Len(s) - Len(suffix) + 1, Len(s)) = suffix

\* s.replace(old, ''): every occurrence of old removed, left to right.
RECURSIVE Remove(_, _)
Remove(s, old) ==
  IF Len(s) < Len(old) THEN s
  ELSE IF SubSeq(s, 1, Len(old)) = old
       THEN Remove(SubSeq(s, Len(old) + 1, Len(s)), old)
       ELSE <<s[1]>> \o Remove(Tail(s), old)

(***************************************************************************)
(* The store.                                                              *)
(***************************************************************************)
\* The id SQLite gives a new row of a table with an INTEGER PRIMARY KEY:
\* one more than the largest id in the table.
NextId(rows) == IF rows = {} THEN 1 ELSE Max({r.id : r \in rows}) + 1

\* User.query.filter_by(email=...).first()
UserByEmail(email) == {u \in users : u.email = email}

\* User.query.get(user_id)
UserById(id) == {u \in users : u.id = id}

\* A lookup by id alone, without the owner.
PaperOf_any_owner(paper_id, user_id) == {p \in papers : p.id = paper_id}

\* Paper.query.filter_by(id=paper_id, user_id=user_id).first()
PaperOf(paper_id, user_id) ==
  {p \in papers : p.id = paper_id /\ p.user_id = user_id}

\* Paper.query.filter_by(user_id=user_id)
PapersOf(user_id) == {p \in papers : p.user_id = user_id}

\* The session of a worker: the rows added and not yet written, and whether
\* its transaction can still be used (a failed flush leaves it unusable
\* until it is rolled back).
CleanSession == [new |-> {}, usable |-> TRUE]

\* db.session.add(row)
SessionAdd(s, row) == [s EXCEPT !.new = @ \cup {row}]

\* The session after a commit that raised: the flush is undone, the pending
\* rows are dropped, and the transaction waits for a rollback.
SessionFailed(s) == [new |-> {}, usable |-> FALSE]

\* db.session.rollback()
SessionRollback(s) == CleanSession

\* No teardown: the session stays as the handler left it.
shutdown_session_skipped(s) == s

\* The teardown that SQLAlchemy(app) registers for every request: the
\* request's session is removed, whatever state it is in.
shutdown_session(s) == CleanSession

(***************************************************************************)
(* Credentials.                                                            *)
(***************************************************************************)
\* bcrypt.generate_password_hash(password): a salted one-way hash.
generate_password_hash(salt, password) == <<"$2b$", salt, <<"H", salt, password>> >>

\* bcrypt.check_password_hash(pw_hash, password): hash the candidate with
\* the salt of the stored hash and compare.
check_password_hash(pw_hash, password) ==
  generate_password_hash(pw_hash[2], password) = pw_hash

\* create_access_token(identity=str(user.id)): the subject claim is the id
\* as a string.
create_access_token(id) == [sub |-> IntToStr(id)]

\* int(get_jwt_identity())
get_jwt_identity(token) == StrToInt(token.sub)

UserView(u) == [id |-> u.id, email |-> u.email, name |-> u.name,
                is_premium |-> u.is_premium]

(***************************************************************************)
(* Answers.                                                                *)
(***************************************************************************)
Error(status, message) == [status |-> status, body |-> [error |-> message]]

NoLocals == [op |-> "none"]

NoAnswer == [w |-> "none", op |-> "none"]

\* A request is answered: the worker is idle again, its session is torn
\* down, and the answer is recorded.
Answer(w, op, req, resp, sess) ==
  /\ pc' = [pc EXCEPT ![w] = "idle"]
  /\ loc' = [loc EXCEPT ![w] = NoLocals]
  /\ session' = [session EXCEPT ![w] = shutdown_session(sess)]
  /\ last' = [w |-> w, op |-> op, req |-> req,
              status |-> resp.status, body |-> resp.body]

Init ==
  /\ users = {}
  /\ papers = {}
  /\ files = {}
  /\ now = 0
  /\ pc = [w \in Workers |-> "idle"]
  /\ loc = [w \in Workers |-> NoLocals]
  /\ session = [w \in Workers |-> CleanSession]
  /\ last = NoAnswer

(***************************************************************************)
(* POST /api/signup                                                        *)
(***************************************************************************)
\* Lines 152-165: the lookup by email, the hash, the new User object.
signup_query(w, email, password, salt) ==
  /\ pc[w] = "idle"
  /\ LET req == [email |-> email, password |-> password]
     IN IF UserByEmail(email) # {}
        THEN /\ Answer(w, "signup", req, Error(400, "Email already exists"), session[w])
             /\ UNCHANGED <<users, papers, files, now>>
        ELSE IF password = Missing
        THEN \* data['password'] raises KeyError; the handler rolls back.
             /\ Answer(w, "signup", req, Error(500, "'password'"),
                       SessionRollback(session[w]))
             /\ UNCHANGED <<users, papers, files, now>>
        ELSE /\ pc' = [pc EXCEPT ![w] = "signup_commit"]
             /\ loc' = [loc EXCEPT ![w] =
                  [op |-> "signup", req |-> req,
                   new_user |-> [email |-> email,
                                 password |-> generate_password_hash(salt, password),
                                 name |-> "n", is_premium |-> FALSE]]]
             /\ UNCHANGED <<users, papers, files, now, session, last>>

\* Whether the INSERT of new_user is refused: User.email is unique.
EmailTaken(new_user) == UserByEmail(new_user.email) # {}

\* Lines 167-188: add, commit, token, answer; on any exception roll back
\* and answer 500.  store_ok is whether the store accepts the write.
signup_commit(w, store_ok) ==
  /\ pc[w] = "signup_commit"
  /\ LET new_user == loc[w].new_user
         req == loc[w].req
         added == SessionAdd(session[w], new_user)
     IN IF EmailTaken(new_user)
        THEN /\ Answer(w, "signup", req,
                       Error(500, "IntegrityError: UNIQUE constraint failed: user.email"),
                       SessionRollback(SessionFailed(added)))
             /\ UNCHANGED <<users, papers, files, now>>
        ELSE IF ~store_ok
        THEN /\ Answer(w, "signup", req, Error(500, "OperationalError"),
                       SessionRollback(SessionFailed(added)))
             /\ UNCHANGED <<users, papers, files, now>>
        ELSE LET row == [id |-> NextId(users)] @@ new_user
             IN /\ users' = users \cup {row}
                /\ Answer(w, "signup", req,
                          [status |-> 201,
                           body |-> [message |-> "User created successfully",
                                     access_token |-> create_access_token(row.id),
                                     user |-> UserView(row)]],
                          CleanSession)
                /\ UNCHANGED <<papers, files, now>>

(***************************************************************************)
(* POST /api/login                                                         *)
(***************************************************************************)
\* A login that tells an unknown email from a wrong password.
login_response_reveals(email, password) ==
  LET found == UserByEmail(email)
  IN IF found = {} THEN Error(404, "User not found")
     ELSE LET user == CHOOSE u \in found : TRUE
          IN IF password = Missing THEN Error(500, "'password'")
             ELSE IF check_password_hash(user.password, password)
             THEN [status |-> 200,
                   body |-> [access_token |-> create_access_token(user.id),
                             user |-> UserView(user)]]
             ELSE Error(401, "Invalid credentials")

\* Lines 196-218: what login answers for the users table as it is.
login_response(email, password) ==
  LET found == UserByEmail(email)
  IN IF found = {} THEN Error(401, "Invalid credentials")
     ELSE LET user == CHOOSE u \in found : TRUE
          IN IF password = Missing
             THEN \* data['password'] is read only once a user is found.
                  Error(500, "'password'")
             ELSE IF check_password_hash(user.password, password)
             THEN [status |-> 200,
                   body |-> [access_token |-> create_access_token(user.id),
                             user |-> UserView(user)]]
             ELSE Error(401, "Invalid credentials")

login(w, email, password) ==
  /\ pc[w] = "idle"
  /\ Answer(w, "login", [email |-> email, password |-> password],
            login_response(email, password), session[w])
  /\ UNCHANGED <<users, papers, files, now>>

(***************************************************************************)
(* Documents and their analysis.                                           *)
(***************************************************************************)
\* A PDF: whether PyPDF2 can read it, and the text of each of its pages.
Pdf(pages) == [readable |-> TRUE, pages |-> pages]

CorruptPdf == [readable |-> FALSE, pages |-> <<>>]

\* Lines 84-96: the pages' texts, each followed by a newline, pages without
\* text skipped; the empty text when the reader raises.
extract_text_from_pdf(file) ==
  LET RECURSIVE join(_)
      join(i) ==
        IF i = 0 THEN <<>>
        ELSE IF file.pages[i] # <<>>
             THEN TCat(join(i - 1), TCat(file.pages[i], Run("\n", 1)))
             ELSE join(i - 1)
  IN IF file.readable THEN join(Len(file.pages)) ELSE <<>>

Kinds == <<"summary", "key_findings", "methodology", "research_gaps", "future_work">>

KindSet == {Kinds[i] : i \in 1..Len(Kinds)}

\* What the provider does with one request: it returns a text, or the call
\* raises with a message.
Returned(text) == [ok |-> TRUE, text |-> text]

Raised(message) == [ok |-> FALSE, message |-> message]

\* Line 100 and lines 102-115: the prompt of a kind, over the first 6000
\* characters of the text; an unknown kind gets the summary's template.
Prompt(text, analysis_type) ==
  [template |-> IF analysis_type \in KindSet THEN analysis_type ELSE "summary",
   text |-> TTake(text, 6000)]

\* A failed call that leaves its field empty.
analyze_with_gemini_rest_silent(text, analysis_type, reply) ==
  IF reply.ok THEN reply.text ELSE <<>>

\* Lines 98-122: the provider's text, or "Error: " and the exception's text.
analyze_with_gemini_rest(text, analysis_type, reply) ==
  IF reply.ok THEN reply.text
  ELSE TCat(Str(<<"E", "r", "r", "o", "r", ":", " ">>), Str(reply.message))

\* 'Error: Could not extract text from PDF'
CouldNotExtractChars ==
  <<"E", "r", "r", "o", "r", ":", " ", "C", "o", "u", "l", "d", " ",
       "n", "o", "t", " ", "e", "x", "t", "r", "a", "c", "t", " ", "t",
       "e", "x", "t", " ", "f", "r", "o", "m", " ", "P", "D", "F">>

CouldNotExtract == Str(CouldNotExtractChars)

\* Lines 124-143: the five fields; replies maps each kind to what the
\* provider does with its request.
analyze_paper_with_ai(text, replies) ==
  IF text = <<>> \/ TLen(text) < 100
  THEN [k \in KindSet |-> CouldNotExtract]
  ELSE [k \in KindSet |-> analyze_with_gemini_rest(text, k, replies[k])]

\* The requests analyze_paper_with_ai sends to the provider, in order.
ProviderCalls(text) ==
  IF text = <<>> \/ TLen(text) < 100 THEN <<>>
  ELSE [i \in 1..Len(Kinds) |-> Prompt(text, Kinds[i])]

(***************************************************************************)
(* The upload directory.                                                   *)
(***************************************************************************)
FileAt(path) == {f \in files : f.path = path}

\* file.save(filepath): the file is created or overwritten.
FileSave(path, content) ==
  (files \ FileAt(path)) \cup {[path |-> path, content |-> content]}

\* Lines 304-305: uploads/{user_id}_{int(timestamp)}_{filename}
SafeFilename(user_id, timestamp, filename) ==
  IntToStr(user_id) \o <<"_">> \o IntToStr(timestamp) \o <<"_">> \o filename

UploadPath(user_id, timestamp, filename) ==
  <<"u", "p", "l", "o", "a", "d", "s", "/">> \o SafeFilename(user_id, timestamp, filename)

DotPdf == <<".", "p", "d", "f">>

\* The multipart request without a part named file.
NoFile == [part |-> FALSE]

Upload(filename, content) == [part |-> TRUE, filename |-> filename, content |-> content]

(***************************************************************************)
(* POST /api/upload-paper                                                  *)
(***************************************************************************)
\* Lines 286-287: the quota of a user who is not premium.
QuotaExceeded(user, user_papers) == ~user.is_premium /\ user_papers >= 3

\* The checks with the file validated before the quota.
upload_precheck_file_first(user_id, file) ==
  IF UserById(user_id) = {} THEN Error(404, "User not found")
  ELSE IF ~file.part THEN Error(400, "No file provided")
  ELSE IF file.filename = <<>> THEN Error(400, "No file selected")
  ELSE IF ~EndsWith(Lower(file.filename), <<".", "p", "d", "f">>)
  THEN Error(400, "Only PDF files are allowed")
  ELSE IF Cardinality(PapersOf(user_id)) >= 3
  THEN Error(403, "Free users can only upload 3 papers. Upgrade to premium!")
  ELSE [status |-> 0, body |-> "pass"]

\* Lines 278-299: the answer of the checks made before anything is written,
\* or "pass".
upload_precheck(user_id, file) ==
  IF UserById(user_id) = {} THEN Error(404, "User not found")
  ELSE IF QuotaExceeded(CHOOSE u \in UserById(user_id) : TRUE,
                        Cardinality(PapersOf(user_id)))
  THEN Error(403, "Free users can only upload 3 papers. Upgrade to premium!")
  ELSE IF ~file.part THEN Error(400, "No file provided")
  ELSE IF file.filename = <<>> THEN Error(400, "No file selected")
  ELSE IF ~EndsWith(Lower(file.filename), DotPdf)
  THEN Error(400, "Only PDF files are allowed")
  ELSE [status |-> 0, body |-> "pass"]

upload_check(w, token, file) ==
  /\ pc[w] = "idle"
  /\ LET user_id == get_jwt_identity(token)
         req == [user_id |-> user_id, file |-> file, calls |-> <<>>, replies |-> <<>>]
         resp == upload_precheck(user_id, file)
     IN IF resp.status # 0
        THEN /\ Answer(w, "upload", req, resp, session[w])
             /\ UNCHANGED <<users, papers, files, now>>
        ELSE /\ pc' = [pc EXCEPT ![w] = "upload_save"]
             /\ loc' = [loc EXCEPT ![w] = [op |-> "upload", req |-> req]]
             /\ UNCHANGED <<users, papers, files, now, session, last>>

\* Lines 302-306: the binary is written under a name made of the user id,
\* the second of the clock and the client's file name.
upload_save(w) ==
  /\ pc[w] = "upload_save"
  /\ LET req == loc[w].req
         filepath == UploadPath(req.user_id, now, req.file.filename)
     IN /\ files' = FileSave(filepath, req.file.content)
        /\ pc' = [pc EXCEPT ![w] = "upload_extract"]
        /\ loc' = [loc EXCEPT ![w] = [op |-> "upload", req |-> req, filepath |-> filepath]]
        /\ UNCHANGED <<users, papers, now, session, last>>

\* Lines 311-320: the saved file is read back, its text extracted and, when
\* there are 100 characters or more, analysed.
upload_extract(w, replies) ==
  /\ pc[w] = "upload_extract"
  /\ LET req == loc[w].req
         filepath == loc[w].filepath
     IN IF FileAt(filepath) = {}
        THEN \* open(filepath, 'rb') raises.
             /\ Answer(w, "upload", req, Error(500, "FileNotFoundError"), session[w])
             /\ UNCHANGED <<users, papers, files, now>>
        ELSE LET text == extract_text_from_pdf((CHOOSE f \in FileAt(filepath) : TRUE).content)
             IN IF text = <<>> \/ TLen(text) < 100
                THEN /\ Answer(w, "upload", req,
                               Error(400, "Could not extract text from PDF"), session[w])
                     /\ UNCHANGED <<users, papers, files, now>>
                ELSE /\ pc' = [pc EXCEPT ![w] = "upload_commit"]
                     /\ loc' = [loc EXCEPT ![w] =
                          [op |-> "upload",
                           req |-> [req EXCEPT !.calls = ProviderCalls(text),
                                               !.replies = replies],
                           filepath |-> filepath,
                           analysis |-> analyze_paper_with_ai(text, replies)]]
                     /\ UNCHANGED <<users, papers, files, now, session, last>>

\* Lines 323-333: the Paper object.
NewPaper(user_id, file, filepath, analysis) ==
  [user_id |-> user_id,
   title |-> Remove(file.filename, DotPdf),
   filename |-> file.filename,
   filepath |-> filepath,
   summary |-> analysis["summary"],
   key_findings |-> analysis["key_findings"],
   methodology |-> analysis["methodology"],
   research_gaps |-> analysis["research_gaps"],
   future_work |-> analysis["future_work"]]

AnalysisOf(paper) ==
  [summary |-> paper.summary, key_findings |-> paper.key_findings,
   methodology |-> paper.methodology, research_gaps |-> paper.research_gaps,
   future_work |-> paper.future_work]

\* Lines 335-356: add, commit, answer 201; on an exception answer 500 (the
\* handler does not roll back; the failed transaction is left to the
\* request's teardown).
upload_commit(w, store_ok) ==
  /\ pc[w] = "upload_commit"
  /\ LET req == loc[w].req
         paper == NewPaper(req.user_id, req.file, loc[w].filepath, loc[w].analysis)
         added == SessionAdd(session[w], paper)
     IN IF ~store_ok
        THEN /\ Answer(w, "upload", req, Error(500, "OperationalError"),
                       SessionFailed(added))
             /\ UNCHANGED <<users, papers, files, now>>
        ELSE LET row == [id |-> NextId(papers), uploaded_at |-> now] @@ paper
             IN /\ papers' = papers \cup {row}
                /\ Answer(w, "upload", req,
                          [status |-> 201,
                           body |-> [message |-> "Paper uploaded and analyzed successfully",
                                     paper_id |-> row.id,
                                     analysis |-> AnalysisOf(row)]],
                          CleanSession)
                /\ UNCHANGED <<users, files, now>>

(***************************************************************************)
(* GET /api/papers, GET /api/papers/{id}                                   *)
(***************************************************************************)
\* Oldest first.
OrderedAsc(rows) ==
  {s \in [1..Cardinality(rows) -> rows] :
     /\ \A i, j \in DOMAIN s : i # j => s[i] # s[j]
     /\ \A i, j \in DOMAIN s : i < j => s[i].uploaded_at <= s[j].uploaded_at}

\* The orders in which order_by(Paper.uploaded_at.desc()) may return rows:
\* every arrangement with the upload times never increasing.
OrderedDesc(rows) ==
  {s \in [1..Cardinality(rows) -> rows] :
     /\ \A i, j \in DOMAIN s : i # j => s[i] # s[j]
     /\ \A i, j \in DOMAIN s : i < j => s[i].uploaded_at >= s[j].uploaded_at}

\* Line 265: the summary of a list entry.
ListSummary(summary) ==
  IF summary # <<>> /\ TLen(summary) > 200
  THEN TCat(TTake(summary, 200), Str(<<".", ".", ".">>))
  ELSE summary

ListEntry(p) == [id |-> p.id, title |-> p.title, filename |-> p.filename,
                 uploaded_at |-> p.uploaded_at, summary |-> ListSummary(p.summary)]

\* Lines 253-266.
get_papers(w, token) ==
  /\ pc[w] = "idle"
  /\ LET user_id == get_jwt_identity(token)
     IN \E rows \in OrderedDesc(PapersOf(user_id)) :
          Answer(w, "get_papers", [user_id |-> user_id],
                 [status |-> 200, body |-> [i \in DOMAIN rows |-> ListEntry(rows[i])]],
                 session[w])
  /\ UNCHANGED <<users, papers, files, now>>

FullEntry(p) == [id |-> p.id, title |-> p.title, filename |-> p.filename,
                 uploaded_at |-> p.uploaded_at] @@ AnalysisOf(p)

\* Lines 362-378: what GET /api/papers/{id} answers.
get_paper_response(user_id, paper_id) ==
  IF PaperOf(paper_id, user_id) = {} THEN Error(404, "Paper not found")
  ELSE [status |-> 200, body |-> FullEntry(CHOOSE p \in PaperOf(paper_id, user_id) : TRUE)]

get_paper(w, token, paper_id) ==
  /\ pc[w] = "idle"
  /\ LET user_id == get_jwt_identity(token)
     IN Answer(w, "get_paper", [user_id |-> user_id, paper_id |-> paper_id],
               get_paper_response(user_id, paper_id), session[w])
  /\ UNCHANGED <<users, papers, files, now>>

(***************************************************************************)
(* DELETE /api/papers/{id}                                                 *)
(***************************************************************************)
\* Lines 387-391: the paper is looked up by id and owner.
delete_query(w, token, paper_id) ==
  /\ pc[w] = "idle"
  /\ LET user_id == get_jwt_identity(token)
         req == [user_id |-> user_id, paper_id |-> paper_id]
     IN IF PaperOf(paper_id, user_id) = {}
        THEN /\ Answer(w, "delete", req, Error(404, "Paper not found"), session[w])
             /\ UNCHANGED <<users, papers, files, now>>
        ELSE /\ pc' = [pc EXCEPT ![w] = "delete_commit"]
             /\ loc' = [loc EXCEPT ![w] =
                  [op |-> "delete", req |-> req,
                   paper |-> CHOOSE p \in PaperOf(paper_id, user_id) : TRUE]]
             /\ UNCHANGED <<users, papers, files, now, session, last>>

\* Lines 393-394: os.remove(paper.filepath) when the path exists.
FileRemove(path) == files \ FileAt(path)

\* Line 397: DELETE FROM paper WHERE id = paper.id
DeleteRow(paper) == {p \in papers : p.id # paper.id}

\* Lines 393-402: the binary is removed, then the row is deleted and the
\* deletion committed; on an exception the answer is 500.
delete_commit(w, store_ok) ==
  /\ pc[w] = "delete_commit"
  /\ LET req == loc[w].req
         paper == loc[w].paper
     IN /\ files' = FileRemove(paper.filepath)
        /\ IF ~store_ok
           THEN /\ Answer(w, "delete", req, Error(500, "OperationalError"),
                          SessionFailed(session[w]))
                /\ UNCHANGED <<users, papers, now>>
           ELSE /\ papers' = DeleteRow(paper)
                /\ Answer(w, "delete", req,
                          [status |-> 200, body |-> [message |-> "Paper deleted successfully"]],
                          CleanSession)
                /\ UNCHANGED <<users, now>>

(***************************************************************************)
(* The clock.                                                              *)
(***************************************************************************)
Tick ==
  /\ now < MaxTime
  /\ now' = now + 1
  /\ UNCHANGED <<users, papers, files, pc, loc, session, last>>

(***************************************************************************)
(* The authentication service on its own: signups and logins of two        *)
(* workers.                                                                *)
(***************************************************************************)
NextAuth ==
  \E w \in Workers :
    \/ \E e \in Emails, p \in Passwords \cup {Missing}, s \in Salts :
         signup_query(w, e, p, s)
    \/ \E ok \in BOOLEAN : signup_commit(w, ok)
    \/ \E e \in Emails, p \in Passwords \cup {Missing} : login(w, e, p)

SpecAuth == Init /\ [][NextAuth]_vars


(***************************************************************************)
(* Requests.                                                               *)
(***************************************************************************)
\* The bearer tokens of the ids the store hands out to the users.  They are
\* signed with the fixed key of line 24, so a token is accepted whether or
\* not the store holds its user.
Tokens == {create_access_token(i) : i \in 1..Cardinality(Emails)}

APdf == <<"a", ".", "p", "d", "f">>

UpperPdf == <<"B", ".", "P", "D", "F">>

ATxt == <<"a", ".", "t", "x", "t">>

\* One page of 99 characters: 100 with its newline.
GoodPdf == Pdf(<< Run("t", 99) >>)

\* Pages of 50 and 48 characters, and one without text: 100 characters.
PagedPdf == Pdf(<< Run("t", 50), <<>>, Run("u", 48) >>)

\* One page of 98 characters: 99 with its newline.
ShortPdf == Pdf(<< Run("t", 98) >>)

\* More than the 6000 characters a prompt takes.
LongPdf == Pdf(<< Run("t", 6001) >>)

\* 200 characters: the longest summary a list shows whole.
Text200 == TCat(Run("g", 150), Run("h", 50))

\* 201 characters.
Text201 == TCat(Run("g", 150), Run("h", 51))

Timeout == <<"t", "i", "m", "e", "o", "u", "t">>

\* Every way the five calls can each return or raise.
EachReturnsOrRaises == [KindSet -> {Returned(Text200), Raised(Timeout)}]

AllReturn(text) == [k \in KindSet |-> Returned(text)]

\* The token of the first user to sign up.
UserToken == create_access_token(1)

\* A valid upload: a .pdf name and a document of 100 characters.
PaperUpload == Upload(APdf, GoodPdf)

\* The provider returns 200 characters on each of the five calls.
Returns200 == AllReturn(Text200)

\* Paper ids are an unbounded counter; a specification hands them out up
\* to a cap.
IdsLeft(cap) == NextId(papers) <= cap

(***************************************************************************)
(* Two workers serve one user's uploads and deletes while the clock runs;  *)
(* the store accepts every write.                                          *)
(***************************************************************************)
Next ==
  \/ Tick
  \/ \E w \in Workers :
       \/ signup_query(w, "a@x", "pw1", "s1")
       \/ signup_commit(w, TRUE)
       \/ upload_check(w, UserToken, PaperUpload)
       \/ upload_save(w)
       \/ upload_extract(w, Returns200)
       \/ IdsLeft(MaxPaperId) /\ upload_commit(w, TRUE)
       \/ \E id \in 1..MaxPaperId : delete_query(w, UserToken, id)
       \/ delete_commit(w, TRUE)

Spec == Init /\ [][Next]_vars

(***************************************************************************)
(* Two workers serve one user's uploads, valid and invalid; the store may  *)
(* refuse the write of a Paper.                                            *)
(***************************************************************************)
UploadRequests ==
  {NoFile, Upload(<<>>, GoodPdf), Upload(ATxt, GoodPdf), Upload(APdf, GoodPdf),
   Upload(UpperPdf, ShortPdf)}

NextUpload ==
  \E w \in Workers :
    \/ signup_query(w, "a@x", "pw1", "s1")
    \/ signup_commit(w, TRUE)
    \/ \E t \in Tokens, f \in UploadRequests : upload_check(w, t, f)
    \/ upload_save(w)
    \/ upload_extract(w, Returns200)
    \/ \E ok \in BOOLEAN : IdsLeft(MaxPaperId) /\ upload_commit(w, ok)

SpecUpload == Init /\ [][NextUpload]_vars

(***************************************************************************)
(* One worker takes a user's documents through extraction and analysis,    *)
(* the provider returning or raising on each of the five calls.            *)
(***************************************************************************)
Documents == {PagedPdf, ShortPdf, LongPdf, CorruptPdf}

ProviderReplies == EachReturnsOrRaises \cup {AllReturn(Text201), AllReturn(<<>>)}

PipelineUploads == {Upload(APdf, d) : d \in Documents}

NextPipeline ==
  \/ signup_query("w1", "a@x", "pw1", "s1")
  \/ signup_commit("w1", TRUE)
  \/ \E f \in PipelineUploads : upload_check("w1", UserToken, f)
  \/ upload_save("w1")
  \/ \E r \in ProviderReplies : upload_extract("w1", r)
  \/ \E ok \in BOOLEAN : IdsLeft(MaxAnalysed) /\ upload_commit("w1", ok)

SpecPipeline == Init /\ [][NextPipeline]_vars

(***************************************************************************)
(* Two workers serve two users who upload, fetch and delete papers; the    *)
(* store may refuse the deletion of a Paper.                               *)
(***************************************************************************)
NextOwner ==
  \E w \in Workers :
    \/ \E e \in Emails : signup_query(w, e, "pw1", "s1")
    \/ signup_commit(w, TRUE)
    \/ \E t \in Tokens : upload_check(w, t, PaperUpload)
    \/ upload_save(w)
    \/ upload_extract(w, Returns200)
    \/ IdsLeft(MaxOwned) /\ upload_commit(w, TRUE)
    \/ \E t \in Tokens, id \in 1..MaxOwned : get_paper(w, t, id)
    \/ \E t \in Tokens, id \in 1..MaxOwned : delete_query(w, t, id)
    \/ \E ok \in BOOLEAN : delete_commit(w, ok)

SpecOwner == Init /\ [][NextOwner]_vars

(***************************************************************************)
(* One worker serves two users who upload, list and delete papers          *)
(* while the clock runs.                                                   *)
(***************************************************************************)
\* Summaries of 200 and of 201 characters.
ListReplies == {Returns200, AllReturn(Text201)}

NextList ==
  \/ Tick
  \/ \E e \in Emails : signup_query("w1", e, "pw1", "s1")
  \/ signup_commit("w1", TRUE)
  \/ \E t \in Tokens : upload_check("w1", t, PaperUpload)
  \/ upload_save("w1")
  \/ \E r \in ListReplies : upload_extract("w1", r)
  \/ IdsLeft(MaxOwned) /\ upload_commit("w1", TRUE)
  \/ \E t \in Tokens : get_papers("w1", t)
  \/ \E t \in Tokens, id \in 1..MaxOwned : delete_query("w1", t, id)
  \/ delete_commit("w1", TRUE)

SpecList == Init /\ [][NextList]_vars

(***************************************************************************)
(* Properties.                                                             *)
(***************************************************************************)
\* Worker w answers a request in this step.
Answers(w) ==
  /\ pc'[w] = "idle"
  /\ pc[w] # "idle" \/ last' # last
  /\ last'.w = w

\* The password a stored user signed up with.
SignedUpWith(u) == u.password[3][3]

\* The file name does not end in ".pdf", whatever the case of its letters.
NotPdfName(name) ==
  \/ Len(name) < 4
  \/ name[Len(name) - 3] # "."
  \/ name[Len(name) - 2] \notin {"p", "P"}
  \/ name[Len(name) - 1] \notin {"d", "D"}
  \/ name[Len(name)] \notin {"f", "F"}

InvalidFile(file) == ~file.part \/ file.filename = <<>> \/ NotPdfName(file.filename)

ErrorPrefix == << <<"E", 1>>, <<"r", 2>>, <<"o", 1>>, <<"r", 1>>, <<":", 1>>, <<" ", 1>> >>

\* The text the worker's upload will extract from its saved file.
ExtractedBy(w) ==
  extract_text_from_pdf((CHOOSE f \in FileAt(loc[w].filepath) : TRUE).content)

\* C1: in every reachable state every user who is not premium owns at most
\* 3 papers, whatever the interleaving of uploads and deletes.
C1_QuotaHolds ==
  \A u \in users : ~u.is_premium => Cardinality(PapersOf(u.id)) <= 3

\* C2: no two users share an email, and a signup whose email is held by a
\* stored user when it is answered is answered 400 and adds no user.
C2_SignupConflict ==
  /\ [](\A u, v \in users : u.email = v.email => u = v)
  /\ [][\A w \in Workers :
          (Answers(w) /\ last'.op = "signup" /\ UserByEmail(last'.req.email) # {})
          => (last'.status = 400 /\ users' = users)]_vars

\* C3: a login with a registered email and a wrong password and a login
\* with an email no user holds get the same answer, 401 without a token,
\* and such a login leaves the store as it was.
C3_LoginIndistinguishable ==
  /\ [](\A e1, e2 \in Emails, p1, p2 \in Passwords :
          (/\ UserByEmail(e1) # {}
           /\ \A u \in UserByEmail(e1) : SignedUpWith(u) # p1
           /\ UserByEmail(e2) = {})
          => /\ login_response(e1, p1) = login_response(e2, p2)
             /\ login_response(e1, p1).status = 401
             /\ "access_token" \notin DOMAIN login_response(e1, p1).body)
  /\ [][\A w \in Workers :
          (/\ Answers(w) /\ last'.op = "login"
           /\ last'.req.password \in Passwords
           /\ \A u \in UserByEmail(last'.req.email) : SignedUpWith(u) # last'.req.password)
          => /\ last'.status = 401
             /\ "access_token" \notin DOMAIN last'.body
             /\ users' = users /\ papers' = papers /\ files' = files]_vars

\* A login with a registered email and a wrong password was answered 401
\* while another email is not registered.
C3_Witness ==
  /\ last.op = "login" /\ last.status = 401
  /\ last.req.password \in Passwords
  /\ UserByEmail(last.req.email) # {}
  /\ \E e \in Emails : UserByEmail(e) = {}

\* C4: a GET or DELETE of a paper by a user who does not own it is answered
\* at once with the 404 of an id that does not exist, and leaves the Paper
\* table and the upload directory as they were.
C4_CrossUserNotFound ==
  [][\A w \in Workers :
       LET starts == /\ pc[w] = "idle"
                     /\ \/ pc'[w] = "delete_commit"
                        \/ Answers(w) /\ last'.op \in {"get_paper", "delete"}
           req == IF pc'[w] = "delete_commit" THEN loc'[w].req ELSE last'.req
       IN (starts /\ \E p \in papers : p.id = req.paper_id /\ p.user_id # req.user_id)
          => /\ pc'[w] = "idle"
             /\ last'.status = 404
             /\ [status |-> last'.status, body |-> last'.body]
                  = get_paper_response(req.user_id, NextId(papers))
             /\ papers' = papers /\ files' = files]_vars

\* A DELETE of another user's paper was answered 404; the paper and its
\* binary are there.
C4_Witness ==
  /\ last.op = "delete" /\ last.status = 404
  /\ \E p \in papers : /\ p.id = last.req.paper_id
                       /\ p.user_id # last.req.user_id
                       /\ FileAt(p.filepath) # {}

\* C5 as stated: an upload whose extracted text has 100 characters or more
\* ends with exactly one new Paper row of the uploader whose five analysis
\* fields are non-empty; an upload whose text is shorter is answered 400
\* without a provider call and without a row.
C5_Original ==
  [][\A w \in Workers :
       /\ (pc[w] = "upload_extract" /\ FileAt(loc[w].filepath) # {})
          => IF TLen(ExtractedBy(w)) >= 100
             THEN pc'[w] = "upload_commit"
             ELSE /\ pc'[w] = "idle" /\ last'.status = 400
                  /\ last'.req.calls = <<>> /\ papers' = papers
       /\ (pc[w] = "upload_commit" /\ pc'[w] = "idle")
          => \E row \in papers' :
               /\ row \notin papers /\ papers' = papers \cup {row}
               /\ row.user_id = loc[w].req.user_id
               /\ \A k \in KindSet : row[k] # <<>>]_vars

\* C5 as amended: with 100 characters or more the five calls are made and
\* the request ends either 201 with exactly one new row of the uploader,
\* each field the provider's text where the call returned and a non-empty
\* "Error: ..." text where it raised, or 500 with no row; with less, 400,
\* no provider call and no row.
C5_PipelineOutcome ==
  [][\A w \in Workers :
       /\ (pc[w] = "upload_extract" /\ FileAt(loc[w].filepath) # {})
          => IF TLen(ExtractedBy(w)) >= 100
             THEN /\ pc'[w] = "upload_commit"
                  /\ Len(loc'[w].req.calls) = 5
             ELSE /\ pc'[w] = "idle" /\ last'.status = 400
                  /\ last'.req.calls = <<>> /\ papers' = papers
       /\ (pc[w] = "upload_commit" /\ pc'[w] = "idle")
          => IF last'.status = 201
             THEN \E row \in papers' :
                    /\ row \notin papers /\ papers' = papers \cup {row}
                    /\ row.user_id = loc[w].req.user_id
                    /\ \A k \in KindSet :
                         LET reply == loc[w].req.replies[k]
                         IN IF reply.ok THEN row[k] = reply.text
                            ELSE /\ TLen(row[k]) > 7
                                 /\ TTake(row[k], 7) = ErrorPrefix
             ELSE last'.status = 500 /\ papers' = papers]_vars

\* An upload was answered 201 with some provider calls returned and some
\* raised, and its row is stored.
C5_Witness ==
  /\ last.op = "upload" /\ last.status = 201
  /\ \E k \in KindSet : last.req.replies[k].ok
  /\ \E k \in KindSet : ~last.req.replies[k].ok
  /\ \E p \in papers : p.id = last.body.paper_id

\* C6: a DELETE answered with success leaves neither the row nor the
\* binary, and no user can fetch the id; a DELETE answered otherwise leaves
\* both the row and the binary in place.
C6_DeleteAllOrNothing ==
  [][\A w \in Workers :
       (pc[w] = "delete_commit" /\ pc'[w] = "idle")
       => LET paper == loc[w].paper
          IN IF last'.status = 200
             THEN /\ \A p \in papers' : p.id # paper.id
                  /\ \A f \in files' : f.path # paper.filepath
             ELSE /\ paper \in papers => paper \in papers'
                  /\ FileAt(paper.filepath) # {}
                       => \E f \in files' : f.path = paper.filepath]_vars

\* C7: a list holds exactly the requester's papers, newest first, each
\* summary of more than 200 characters cut to its first 200 followed by
\* "...", shorter ones whole; the single-paper view holds the summary whole.
C7_ListNewestFirst ==
  /\ last.op = "get_papers"
     => LET body == last.body
            mine == PapersOf(last.req.user_id)
        IN /\ last.status = 200
           /\ DOMAIN body = 1..Cardinality(mine)
           /\ {body[i].id : i \in DOMAIN body} = {p.id : p \in mine}
           /\ \A i, j \in DOMAIN body :
                i < j => body[i].uploaded_at >= body[j].uploaded_at
           /\ \A i \in DOMAIN body : \E p \in mine :
                /\ p.id = body[i].id
                /\ body[i].uploaded_at = p.uploaded_at
                /\ IF TLen(p.summary) > 200
                   THEN body[i].summary = TCat(TTake(p.summary, 200), Run(".", 3))
                   ELSE body[i].summary = p.summary
  /\ \A p \in papers :
       /\ get_paper_response(p.user_id, p.id).status = 200
       /\ get_paper_response(p.user_id, p.id).body.summary = p.summary

\* A list of two papers uploaded at different times was returned, one
\* summary cut and one whole.
C7_Witness ==
  /\ last.op = "get_papers"
  /\ DOMAIN last.body = 1..2
  /\ last.body[1].uploaded_at > last.body[2].uploaded_at
  /\ \E i, j \in 1..2 : /\ TLen(last.body[i].summary) = 203
                        /\ TLen(last.body[j].summary) = 200

\* C8: an upload is rejected before anything is written exactly when the
\* user is missing (404), else when the user holds 3 papers or more (403),
\* else when the file is invalid (400); a rejected upload leaves the Paper
\* table and the upload directory as they were.
C8_RejectedBeforeWrite ==
  [][\A w \in Workers :
       LET starts == /\ pc[w] = "idle"
                     /\ \/ pc'[w] = "upload_save"
                        \/ Answers(w) /\ last'.op = "upload"
           req == IF pc'[w] = "upload_save" THEN loc'[w].req ELSE last'.req
           missing == UserById(req.user_id) = {}
           atQuota == Cardinality(PapersOf(req.user_id)) >= 3
       IN starts
          => IF missing \/ atQuota \/ InvalidFile(req.file)
             THEN /\ pc'[w] = "idle"
                  /\ last'.status = IF missing THEN 404 ELSE IF atQuota THEN 403 ELSE 400
                  /\ papers' = papers /\ files' = files
             ELSE pc'[w] = "upload_save"]_vars

\* A user holding 3 papers or more sent an invalid file and was answered
\* 403.
C8_Witness ==
  /\ last.op = "upload" /\ last.status = 403
  /\ InvalidFile(last.req.file)
  /\ Cardinality(PapersOf(last.req.user_id)) >= 3

C10_OneBinaryPerRow ==
  /\ \A p \in papers : FileAt(p.filepath) # {}
  /\ \A p, q \in papers : p.filepath = q.filepath => p = q

=============================================================================
